---- MODULE Spec2Model ----
(***************************************************************************)
(* A model of src/core/xconnection.rs: the XConn interface of penrose, its *)
(* live implementation XcbConnection and its test double MockXConn.        *)
(*                                                                         *)
(* Every interface operation is one action.  A round-trip to the X server  *)
(* is an input of the action: the reply is drawn from a bounded set of     *)
(* replies the server can give.  The last operation, its arguments, the    *)
(* replies it received and its result are recorded in the variable ret.    *)
(***************************************************************************)
EXTENDS Integers, Sequences, FiniteSets, TLC

VARIABLES
    \* MockXConn fields (lines 934-938)
    screens, events, focused,
    \* what the test harness knows about the MockXConn it built
    seed,          \* the events given to MockXConn::new
    calls,         \* number of wait_for_event calls made so far
    last_focus,    \* argument of the most recent focus_client call
    \* XcbConnection fields (lines 352-359)
    root, check_win, atoms, auto_float_types, randr_base,
    \* lifecycle of the XcbConnection process
    phase,
    \* the X server as the connection sees it: the events it has delivered
    \* that wait_for_event has not read yet, and the replies it gives
    inbox, server,
    \* the observation of the last operation
    ret

mockVars == <<screens, events, focused, seed, calls, last_focus>>
xcbVars == <<root, check_win, atoms, auto_float_types, randr_base, phase>>
srvVars == <<inbox, server>>
vars == <<screens, events, focused, seed, calls, last_focus,
          root, check_win, atoms, auto_float_types, randr_base, phase,
          inbox, server, ret>>

-----------------------------------------------------------------------------
(* Bounds of the model *)

\* longest event list given to MockXConn::new
MaxEvents == 2
\* window ids range over 0..MaxWin (0 is "no window")
MaxWin == 2
\* longest property value, in bytes, of a string property reply
MaxLen == 3
\* longest _NET_WM_WINDOW_TYPE value, in atoms, built from the type pool
MaxTypes == 2
\* longest CRTC list of a screen-resources reply
MaxCrtcs == 2

\* wait_for_event is called at most this often on the test double
MaxCalls == MaxEvents + 2

WinIds == 0..MaxWin
Windows == 1..MaxWin

-----------------------------------------------------------------------------
(* Option and Result values *)

None == [tag |-> "None"]
Some(x) == [tag |-> "Some", val |-> x]
Ok(x) == [tag |-> "Ok", val |-> x]
Err(msg) == [tag |-> "Err", msg |-> msg]
\* the reply of a failed round-trip
ReplyErr == [tag |-> "Err"]
\* the process aborted inside the operation (panic!, expect, unwrap)
Panic(msg) == [tag |-> "Panic", msg |-> msg]
Unit == [tag |-> "Unit"]
\* a plain return value (a bool, a WinId, a Point, a Vec)
Ret(v) == [tag |-> "Value", val |-> v]

\* sequences over S of length at most n
SeqsUpTo(S, n) == UNION {[1..k -> S] : k \in 0..n}

Range(s) == {s[i] : i \in DOMAIN s}

-----------------------------------------------------------------------------
(* Data types: Point, Region, Screen, KeyCode, XEvent *)

\* a u32 below 2^31 as its two 16-bit halves
U32(n) == [hi |-> n \div 65536, lo |-> n % 65536]
\* Point::new(x, y), x and y u32 values as [hi, lo]
Point(x, y) == [x |-> x, y |-> y]
Region(x, y, w, h) == [x |-> x, y |-> y, w |-> w, h |-> h]

KeyPress(code) == [type |-> "KeyPress", code |-> code]
MapEv(id, ignore) == [type |-> "Map", id |-> id, ignore |-> ignore]
EnterEv(id, rpt, wpt) == [type |-> "Enter", id |-> id, rpt |-> rpt, wpt |-> wpt]
LeaveEv(id, rpt, wpt) == [type |-> "Leave", id |-> id, rpt |-> rpt, wpt |-> wpt]
FocusInEv(id) == [type |-> "FocusIn", id |-> id]
FocusOutEv(id) == [type |-> "FocusOut", id |-> id]
DestroyEv(id) == [type |-> "Destroy", id |-> id]
ScreenChange == [type |-> "ScreenChange"]
RandrNotify == [type |-> "RandrNotify"]

Screen(index, region) ==
    [index |-> index, true_region |-> region, effective_region |-> region]

KeyCode(mask, code) == [mask |-> mask, code |-> code]

-----------------------------------------------------------------------------
(* MockXConn: the test double *)

\* property names passed by callers; the last one is in no atom table
PropNames == {"WM_CLASS", "WM_NAME", "NOT_AN_ATOM"}

\* MockXConn::new(screens, events)
MockXConn_new(s, e) ==
    /\ screens = s
    /\ events = e
    /\ focused = 0

\* what an operation of the test double leaves behind: its result, and the
\* three fields as the operation set them
MockStep(op, arg, out, ev, foc) ==
    /\ ret' = [impl |-> "MockXConn", op |-> op, arg |-> arg, out |-> out]
    /\ events' = ev
    /\ focused' = foc
    /\ screens' = screens
    /\ UNCHANGED <<seed, xcbVars, srvVars>>

\* an operation of the test double whose body touches no field
MockNoop(op, arg, out) ==
    /\ MockStep(op, arg, out, events, focused)
    /\ UNCHANGED <<calls, last_focus>>

Mock_flush == MockNoop("flush", Unit, TRUE)

\* a slip: the next event is taken from the back of the queue
Mock_wait_for_event_lifo ==
    /\ calls < MaxCalls
    /\ calls' = calls + 1
    /\ UNCHANGED last_focus
    /\ IF Len(events) = 0
          THEN MockStep("wait_for_event", Unit, None, <<>>, focused)
          ELSE MockStep("wait_for_event", Unit, Some(events[Len(events)]),
                        SubSeq(events, 1, Len(events) - 1), focused)

Mock_wait_for_event ==
    /\ calls < MaxCalls
    /\ calls' = calls + 1
    /\ UNCHANGED last_focus
    /\ LET remaining == events   \* self.events.replace(vec![]) leaves <<>>
       IN IF Len(remaining) = 0
             THEN MockStep("wait_for_event", Unit, None, <<>>, focused)
             ELSE MockStep("wait_for_event", Unit, Some(Head(remaining)),
                           Tail(remaining), focused)

Mock_current_outputs == MockNoop("current_outputs", Unit, screens)

Mock_cursor_position ==
    MockNoop("cursor_position", Unit, Point(U32(0), U32(0)))

Mock_position_window ==
    \E id \in WinIds : MockNoop("position_window", id, Unit)

Mock_mark_new_window ==
    \E id \in WinIds : MockNoop("mark_new_window", id, Unit)

Mock_map_window == \E id \in WinIds : MockNoop("map_window", id, Unit)

Mock_unmap_window == \E id \in WinIds : MockNoop("unmap_window", id, Unit)

Mock_send_client_event ==
    \E id \in WinIds : MockNoop("send_client_event", id, Unit)

Mock_focused_client == MockNoop("focused_client", Unit, focused)

\* a slip: the cell is read, the new id is dropped
Mock_focus_client_dropped(id) ==
    /\ MockStep("focus_client", id, Unit, events, focused)
    /\ last_focus' = Some(id)
    /\ UNCHANGED calls

Mock_focus_client(id) ==
    /\ MockStep("focus_client", id, Unit, events, id)
    /\ last_focus' = Some(id)
    /\ UNCHANGED calls

Mock_set_client_border_color ==
    \E id \in WinIds : MockNoop("set_client_border_color", id, Unit)

Mock_grab_keys == MockNoop("grab_keys", Unit, Unit)

Mock_set_wm_properties == MockNoop("set_wm_properties", Unit, Unit)

Mock_update_desktops == MockNoop("update_desktops", Unit, Unit)

Mock_set_current_workspace == MockNoop("set_current_workspace", Unit, Unit)

Mock_set_root_window_name == MockNoop("set_root_window_name", Unit, Unit)

Mock_set_client_workspace ==
    \E id \in WinIds : MockNoop("set_client_workspace", id, Unit)

Mock_window_should_float ==
    \E id \in WinIds : MockNoop("window_should_float", id, TRUE)

Mock_warp_cursor ==
    \E w \in {None} \cup {Some(id) : id \in Windows} :
        MockNoop("warp_cursor", w, Unit)

Mock_query_for_active_windows ==
    MockNoop("query_for_active_windows", Unit, <<>>)

Mock_str_prop ==
    \E name \in PropNames : MockNoop("str_prop", name, Ok(name))

Mock_atom_prop == \E id \in WinIds : MockNoop("atom_prop", id, Ok(id))

\* a slip: shutting down empties the event queue
Mock_cleanup_dropsEvents ==
    /\ MockStep("cleanup", Unit, Unit, <<>>, focused)
    /\ UNCHANGED <<calls, last_focus>>

Mock_cleanup == MockNoop("cleanup", Unit, Unit)

\* the XcbConnection of a process that uses the test double is never built
XcbUnbuilt ==
    /\ root = 0
    /\ check_win = 0
    /\ atoms = <<>>
    /\ auto_float_types = <<>>
    /\ randr_base = 0
    /\ phase = "Uninitialized"
    /\ inbox = <<>>
    /\ server = <<>>

NoCall == [impl |-> "none", op |-> "none", arg |-> Unit, out |-> Unit]

\* the events and the screen lists a test may script
InitMock ==
    /\ LET MockEventPool ==
               {KeyPress(KeyCode(0, 38)), ScreenChange, MapEv(1, FALSE)}
           MockScreenLists == {<<>>, <<Screen(0, Region(0, 0, 2, 1))>>}
       IN \E s \in MockScreenLists,
             e \in SeqsUpTo(MockEventPool, MaxEvents) :
                MockXConn_new(s, e) /\ seed = e
    /\ calls = 0
    /\ last_focus = None
    /\ XcbUnbuilt
    /\ ret = NoCall

NextMock ==
    \/ Mock_flush
    \/ Mock_wait_for_event
    \/ Mock_current_outputs
    \/ Mock_cursor_position
    \/ Mock_position_window
    \/ Mock_mark_new_window
    \/ Mock_map_window
    \/ Mock_unmap_window
    \/ Mock_send_client_event
    \/ Mock_focused_client
    \/ \E id \in WinIds : Mock_focus_client(id)
    \/ Mock_set_client_border_color
    \/ Mock_grab_keys
    \/ Mock_set_wm_properties
    \/ Mock_update_desktops
    \/ Mock_set_current_workspace
    \/ Mock_set_root_window_name
    \/ Mock_set_client_workspace
    \/ Mock_window_should_float
    \/ Mock_warp_cursor
    \/ Mock_query_for_active_windows
    \/ Mock_str_prop
    \/ Mock_atom_prop
    \/ Mock_cleanup

SpecMock == InitMock /\ [][NextMock]_vars

-----------------------------------------------------------------------------
(* Claims about the test double *)

Min(a, b) == IF a <= b THEN a ELSE b

\* C1: on the test double wait_for_event is a non-blocking FIFO over the
\* constructor's events e1..en: the k-th call (k <= n) returns ek and removes
\* it, every later call returns no event, whatever else is called in between.
C1_MockEventsAreFifo ==
    LET n == Len(seed)
    IN /\ events = SubSeq(seed, Min(calls, n) + 1, n)
       /\ (ret.op = "wait_for_event" =>
              ret.out = IF calls <= n THEN Some(seed[calls]) ELSE None)

\* C1 witness: a queue of two different events has been drained by four
\* calls, with a focus_client call made along the way
C1_Witness ==
    /\ Len(seed) = 2
    /\ seed[1] # seed[2]
    /\ calls = 4
    /\ last_focus # None
    /\ ret.op = "wait_for_event"
    /\ ret.out = None

\* C2: on the test double focused_client() returns exactly the id passed to
\* the most recent focus_client(id) call.
C2_MockFocusRoundTrip ==
    (ret.op = "focused_client" /\ last_focus # None) =>
        ret.out = last_focus.val

\* C2 witness: focused_client answers a nonzero id given to focus_client
\* after the queue was polled in between
C2_Witness ==
    /\ ret.op = "focused_client"
    /\ last_focus = Some(2)
    /\ ret.out = 2
    /\ calls > 0

-----------------------------------------------------------------------------
(* XcbConnection: constants *)

\* u8::MAX, the width of randr_base and of an event's response_type
U8Max == 255
\* 2^16: a u32 is kept as its two 16-bit halves, [hi, lo]
U16Mod == 65536

\* event tags of the core protocol and of the randr extension
KEY_PRESS == 2
BUTTON_PRESS == 4
BUTTON_RELEASE == 5
ENTER_NOTIFY == 7
LEAVE_NOTIFY == 8
FOCUS_IN == 9
FOCUS_OUT == 10
DESTROY_NOTIFY == 17
MAP_NOTIFY == 19
RANDR_SCREEN_CHANGE_NOTIFY == 0
RANDR_NOTIFY == 1

ATOMS == <<
    "MANAGER",
    "UTF8_STRING",
    "WM_CLASS",
    "WM_DELETE_WINDOW",
    "WM_PROTOCOLS",
    "WM_STATE",
    "WM_NAME",
    "WM_TAKE_FOCUS",
    "_NET_ACTIVE_WINDOW",
    "_NET_CLIENT_LIST",
    "_NET_CURRENT_DESKTOP",
    "_NET_DESKTOP_NAMES",
    "_NET_NUMBER_OF_DESKTOPS",
    "_NET_SUPPORTED",
    "_NET_SUPPORTING_WM_CHECK",
    "_NET_SYSTEM_TRAY_OPCODE",
    "_NET_SYSTEM_TRAY_ORIENTATION",
    "_NET_SYSTEM_TRAY_ORIENTATION_HORZ",
    "_NET_SYSTEM_TRAY_S0",
    "_NET_WM_DESKTOP",
    "_NET_WM_NAME",
    "_NET_WM_STATE",
    "_NET_WM_STATE_FULLSCREEN",
    "_NET_WM_WINDOW_TYPE",
    "_NET_WM_WINDOW_TYPE_DIALOG",
    "_XEMBED",
    "_XEMBED_INFO",
    "_NET_WM_WINDOW_TYPE_DESKTOP",
    "_NET_WM_WINDOW_TYPE_DOCK",
    "_NET_WM_WINDOW_TYPE_TOOLBAR",
    "_NET_WM_WINDOW_TYPE_MENU",
    "_NET_WM_WINDOW_TYPE_UTILITY",
    "_NET_WM_WINDOW_TYPE_SPLASH",
    "_NET_WM_WINDOW_TYPE_DIALOG",
    "_NET_WM_WINDOW_TYPE_DROPDOWN_MENU",
    "_NET_WM_WINDOW_TYPE_POPUP_MENU",
    "_NET_WM_WINDOW_TYPE_NOTIFICATION",
    "_NET_WM_WINDOW_TYPE_COMBO",
    "_NET_WM_WINDOW_TYPE_DND",
    "_NET_WM_WINDOW_TYPE_NORMAL" >>

AUTO_FLOAT_WINDOW_TYPES == <<
    "_NET_WM_WINDOW_TYPE_DESKTOP",
    "_NET_WM_WINDOW_TYPE_DIALOG",
    "_NET_WM_WINDOW_TYPE_DOCK",
    "_NET_WM_WINDOW_TYPE_DROPDOWN_MENU",
    "_NET_WM_WINDOW_TYPE_MENU",
    "_NET_WM_WINDOW_TYPE_NOTIFICATION",
    "_NET_WM_WINDOW_TYPE_POPUP_MENU",
    "_NET_WM_WINDOW_TYPE_SPLASH",
    "_NET_WM_WINDOW_TYPE_TOOLBAR",
    "_NET_WM_WINDOW_TYPE_UTILITY" >>

-----------------------------------------------------------------------------
(* XcbConnection: bootstrap *)

\* The server interns a name once and answers the same id for it ever after;
\* different names get different ids.  The server of offset k gives the name
\* first listed at position i of ATOMS the id k + i.
AtomOffsets == {60, 400}

\* xcb::intern_atom(&conn, false, atom).get_reply().atom() on the server k
intern_atom(k, name) ==
    LET FirstIndex == CHOOSE i \in DOMAIN ATOMS :
            ATOMS[i] = name /\ \A j \in 1..(i - 1) : ATOMS[j] # name
    IN k + FirstIndex

\* lines 375-386: the (name, id) pairs collected into the HashMap
InternedAtoms(k) == [name \in Range(ATOMS) |-> intern_atom(k, name)]

\* lines 388-391
AutoFloatTypes(table) ==
    [i \in DOMAIN AUTO_FLOAT_WINDOW_TYPES |-> table[AUTO_FLOAT_WINDOW_TYPES[i]]]

\* the id of the root window, and the id conn.generate_id() hands out for
\* the check window
RootWindow == MaxWin + 1
CheckWindow == MaxWin + 2

\* the fields of the XcbConnection that new() returns (lines 421-428) when
\* the server has atom offset k and the randr extension has event base b
XcbReady(k, b) ==
    /\ root = RootWindow
    /\ check_win = CheckWindow
    /\ atoms = InternedAtoms(k)
    /\ auto_float_types = AutoFloatTypes(InternedAtoms(k))
    /\ randr_base = b
    /\ phase = "Ready"

\* the test double of a process that uses the XcbConnection is never built
MockUnbuilt ==
    /\ screens = <<>>
    /\ events = <<>>
    /\ focused = 0
    /\ seed = <<>>
    /\ calls = 0
    /\ last_focus = None

\* What the server does with one request of this client.  It keeps the
\* passive grabs on the root window, the windows the client created and
\* whether the root carries _NET_ACTIVE_WINDOW; a grab is released by an
\* ungrab request only, and every other request leaves these alone.
Serve(srv, r) ==
    CASE r.req = "grab_key" ->
            [srv EXCEPT !.key_grabs =
                @ \cup {[modifiers |-> r.modifiers, key |-> r.key]}]
      [] r.req = "ungrab_key" ->
            [srv EXCEPT !.key_grabs =
                IF r.key = "GRAB_ANY" /\ r.modifiers = "MOD_MASK_ANY"
                   THEN {}
                   ELSE @ \ {[modifiers |-> r.modifiers, key |-> r.key]}]
      [] r.req = "grab_button" ->
            [srv EXCEPT !.button_grabs =
                @ \cup {[modifiers |-> r.modifiers, button |-> r.button]}]
      [] r.req = "ungrab_button" ->
            [srv EXCEPT !.button_grabs =
                IF r.button = "BUTTON_INDEX_ANY" /\ r.modifiers = "MOD_MASK_ANY"
                   THEN {}
                   ELSE @ \ {[modifiers |-> r.modifiers, button |-> r.button]}]
      [] r.req = "create_window" ->
            [srv EXCEPT !.windows =
                IF srv.boot.create_window THEN @ \cup {r.wid} ELSE @]
      [] r.req = "destroy_window" ->
            [srv EXCEPT !.windows = @ \ {r.window}]
      [] r.req = "change_property" ->
            [srv EXCEPT !.active_window_set =
                \/ @
                \/ /\ r.window = RootWindow
                   /\ r.property =
                        intern_atom(srv.atom_offset, "_NET_ACTIVE_WINDOW")]
      [] r.req = "delete_property" ->
            [srv EXCEPT !.active_window_set =
                /\ @
                /\ ~ /\ r.window = RootWindow
                     /\ r.property =
                          intern_atom(srv.atom_offset, "_NET_ACTIVE_WINDOW")]
      [] OTHER -> srv

\* the requests of one call, served in the order the client issued them
RECURSIVE ServeAll(_, _)
ServeAll(srv, reqs) ==
    IF reqs = <<>> THEN srv
                   ELSE ServeAll(Serve(srv, Head(reqs)), Tail(reqs))

\* what an operation of the XcbConnection leaves behind: the requests it
\* issued without waiting for a reply, in order, and its result; a panic
\* ends the process.  No method takes &mut self and no field is a Cell.
XcbStep(op, arg, reqs, out) ==
    /\ phase = "Ready"
    /\ ret' = [impl |-> "XcbConnection", op |-> op, arg |-> arg,
               reqs |-> reqs, out |-> out]
    /\ phase' = IF out.tag = "Panic" THEN "Aborted" ELSE phase
    /\ UNCHANGED <<root, check_win, atoms, auto_float_types, randr_base>>
    /\ UNCHANGED mockVars
    /\ server' = ServeAll(server, reqs)

-----------------------------------------------------------------------------
(* XcbConnection::wait_for_event *)

\* A raw event is 32 bytes; the model keeps the bytes the casts read, named
\* by their offset: b1 the byte at offset 1, d4/d8/d12 the 32-bit words at
\* offsets 4, 8 and 12, h20..h28 the 16-bit words at offsets 20..28 (h20 to
\* h26 are signed).
RawEvent(tag, b1, d4, d8, d12, h20, h22, h24, h26, h28) ==
    [kind |-> "event", tag |-> tag, b1 |-> b1, d4 |-> d4, d8 |-> d8,
     d12 |-> d12, h20 |-> h20, h22 |-> h22, h24 |-> h24, h26 |-> h26,
     h28 |-> h28]

\* conn.wait_for_event() returned None: the connection is broken
IoError == [kind |-> "io_error"]

\* event.response_type()
response_type(e) == e.tag

\* xcb::KeyPressEvent: detail at 1, state at 28
KeyPress_detail(e) == e.b1
KeyPress_state(e) == e.h28
\* xcb::MapNotifyEvent: event at 4, window at 8, override_redirect at 12
MapNotify_window(e) == e.d8
MapNotify_override_redirect(e) == (e.d12 % 256) # 0
\* xcb::EnterNotifyEvent, xcb::LeaveNotifyEvent: event at 12, root_x at 20,
\* root_y at 22, event_x at 24, event_y at 26
EnterNotify_event(e) == e.d12
EnterNotify_root_x(e) == e.h20
EnterNotify_root_y(e) == e.h22
EnterNotify_event_x(e) == e.h24
EnterNotify_event_y(e) == e.h26
\* xcb::FocusInEvent, xcb::FocusOutEvent: event at 4
FocusIn_event(e) == e.d4

\* `x as u32` of an i16: sign extension to 32 bits
I16AsU32(x) ==
    IF x >= 0 THEN [hi |-> 0, lo |-> x]
              ELSE [hi |-> U16Mod - 1, lo |-> x + U16Mod]

\* KeyCode::from_key_press
from_key_press(e) == KeyCode(KeyPress_state(e), KeyPress_detail(e))

\* a slip: Map carries the window the event was reported to (offset 4)
MatchEtype_mapEventWindow(event) ==
    LET etype == response_type(event)
    IN CASE etype = BUTTON_PRESS -> None
         [] etype = BUTTON_RELEASE -> None
         [] etype = KEY_PRESS -> Some(KeyPress(from_key_press(event)))
         [] etype = MAP_NOTIFY ->
                Some(MapEv(event.d4, MapNotify_override_redirect(event)))
         [] etype = ENTER_NOTIFY ->
                Some(EnterEv(EnterNotify_event(event),
                             Point(I16AsU32(EnterNotify_root_x(event)),
                                   I16AsU32(EnterNotify_root_y(event))),
                             Point(I16AsU32(EnterNotify_event_x(event)),
                                   I16AsU32(EnterNotify_event_y(event)))))
         [] etype = LEAVE_NOTIFY ->
                Some(LeaveEv(EnterNotify_event(event),
                             Point(I16AsU32(EnterNotify_root_x(event)),
                                   I16AsU32(EnterNotify_root_y(event))),
                             Point(I16AsU32(EnterNotify_event_x(event)),
                                   I16AsU32(EnterNotify_event_y(event)))))
         [] etype = FOCUS_IN -> Some(FocusInEv(FocusIn_event(event)))
         [] etype = FOCUS_OUT -> Some(FocusOutEv(FocusIn_event(event)))
         [] etype = DESTROY_NOTIFY ->
                Some(DestroyEv(MapNotify_window(event)))
         [] etype = RANDR_SCREEN_CHANGE_NOTIFY -> Some(ScreenChange)
         [] OTHER -> None

\* lines 484-541: the match on the tag
MatchEtype(event) ==
    LET etype == response_type(event)
    IN CASE etype = BUTTON_PRESS -> None
         [] etype = BUTTON_RELEASE -> None
         [] etype = KEY_PRESS -> Some(KeyPress(from_key_press(event)))
         [] etype = MAP_NOTIFY ->
                Some(MapEv(MapNotify_window(event),
                           MapNotify_override_redirect(event)))
         [] etype = ENTER_NOTIFY ->
                Some(EnterEv(EnterNotify_event(event),
                             Point(I16AsU32(EnterNotify_root_x(event)),
                                   I16AsU32(EnterNotify_root_y(event))),
                             Point(I16AsU32(EnterNotify_event_x(event)),
                                   I16AsU32(EnterNotify_event_y(event)))))
         [] etype = LEAVE_NOTIFY ->
                Some(LeaveEv(EnterNotify_event(event),
                             Point(I16AsU32(EnterNotify_root_x(event)),
                                   I16AsU32(EnterNotify_root_y(event))),
                             Point(I16AsU32(EnterNotify_event_x(event)),
                                   I16AsU32(EnterNotify_event_y(event)))))
         [] etype = FOCUS_IN -> Some(FocusInEv(FocusIn_event(event)))
         [] etype = FOCUS_OUT -> Some(FocusOutEv(FocusIn_event(event)))
         [] etype = DESTROY_NOTIFY ->
                Some(DestroyEv(MapNotify_window(event)))
         [] etype = RANDR_SCREEN_CHANGE_NOTIFY -> Some(ScreenChange)
         [] OTHER -> None

\* a slip: the fixed tag table is consulted before the extension's tag
TranslateEvent_tableFirst(event, notify) ==
    IF MatchEtype(event) # None
       THEN MatchEtype(event)
       ELSE IF response_type(event) = notify THEN Some(RandrNotify) ELSE None

\* lines 478-541: the closure, given the value of randr_base + NOTIFY
TranslateEvent(event, notify) ==
    IF response_type(event) = notify
       THEN Some(RandrNotify)
       ELSE MatchEtype(event)

\* self.randr_base + xcb::randr::NOTIFY in u8: a sum above u8::MAX panics
\* in a build with overflow checks and wraps in a build without
AddU8(a, b) ==
    IF a + b <= U8Max
       THEN {Ok(a + b)}
       ELSE {Panic("attempt to add with overflow"), Ok((a + b) % (U8Max + 1))}

\* lines 477-542: the results wait_for_event can give for what the
\* connection delivered
WaitForEventResults(delivered) ==
    IF delivered.kind = "io_error"
       THEN {None}
       ELSE {IF sum.tag = "Panic" THEN sum
                                  ELSE TranslateEvent(delivered, sum.val) :
             sum \in AddU8(randr_base, RANDR_NOTIFY)}

\* the core tags the match of lines 484-541 names
CoreTags ==
    {KEY_PRESS, BUTTON_PRESS, BUTTON_RELEASE, ENTER_NOTIFY, LEAVE_NOTIFY,
     FOCUS_IN, FOCUS_OUT, DESTROY_NOTIFY, MAP_NOTIFY}

\* the events the server delivers: key and button events, window events,
\* crossing events with positive and negative coordinates, and every other tag
RawEvents ==
    LET Coords == {-1, 3}
        KeyPayloads ==
            {RawEvent(t, b1, 0, RootWindow, 1, 0, 0, 0, 0, h28) :
                t \in {KEY_PRESS, BUTTON_PRESS, BUTTON_RELEASE},
                b1 \in {1, 38}, h28 \in {0, 64}}
        WindowPayloads ==
            {RawEvent(t, 0, d4, d8, d12, 0, 0, 0, 0, 0) :
                t \in {MAP_NOTIFY, DESTROY_NOTIFY, FOCUS_IN, FOCUS_OUT},
                d4 \in Windows, d8 \in Windows, d12 \in {0, 1}}
        CrossingPayloads ==
            {RawEvent(t, 0, 0, RootWindow, 1, x, y, ex, ey, 0) :
                t \in {ENTER_NOTIFY, LEAVE_NOTIFY},
                x \in Coords, y \in Coords, ex \in Coords, ey \in Coords}
        OtherPayloads ==
            {RawEvent(t, 0, d, 0, 0, 0, 0, 0, 0, 0) :
                t \in (0..U8Max) \ CoreTags, d \in {0, 1}}
    IN KeyPayloads \cup WindowPayloads \cup CrossingPayloads
           \cup OtherPayloads

\* wait_for_event blocks until the connection has something to deliver
Xcb_wait_for_event ==
    /\ inbox # <<>>
    /\ inbox' = Tail(inbox)
    /\ \E out \in WaitForEventResults(Head(inbox)) :
          XcbStep("wait_for_event", Head(inbox), <<>>, out)

\* the replies of a server: props[w][name] to a read of the property name
\* of window w, tree to query_tree on the root, resources to
\* get_screen_resources, carrying the get_crtc_info reply of each CRTC,
\* pointer to query_pointer, focus to get_input_focus, geometry to
\* get_geometry, link whether the connection can still be written to, and
\* boot what the server answers while new() runs.
BootOk(first_event) ==
    [connect |-> TRUE, has_root |-> TRUE, intern |-> TRUE,
     create_window |-> TRUE, ext |-> Some(first_event),
     select_input |-> TRUE]

ServerWith(props, tree, resources) ==
    [atom_offset |-> CHOOSE k \in AtomOffsets : TRUE,
     props |-> props, tree |-> tree, resources |-> resources,
     pointer |-> ReplyErr, focus |-> ReplyErr, geometry |-> ReplyErr,
     link |-> TRUE, boot |-> BootOk(89),
     key_grabs |-> {}, button_grabs |-> {}, windows |-> {CheckWindow},
     active_window_set |-> FALSE]

\* no window has a property set
NoProps == [w \in Windows |-> <<>>]

\* a server with no windows, no properties and no CRTCs
QuietServer == ServerWith(NoProps, Ok(<<>>), Ok(<<>>))

\* the XcbConnection as new() returned it, first_event being any u8, and
\* one event (or the loss of the connection) waiting to be read
InitEvent ==
    /\ \E b \in 0..U8Max : XcbReady(QuietServer.atom_offset, b)
    /\ \E delivered \in {IoError} \cup RawEvents : inbox = <<delivered>>
    /\ server = QuietServer
    /\ MockUnbuilt
    /\ ret = NoCall

NextEvent == Xcb_wait_for_event

SpecEvent == InitEvent /\ [][NextEvent]_vars

-----------------------------------------------------------------------------
(* Claims about the event translation *)

\* the tags wait_for_event has an arm for, given the extension's base
RecognizedTags(base) ==
    CoreTags \cup {RANDR_SCREEN_CHANGE_NOTIFY} \cup {base + RANDR_NOTIFY}

\* C3: a raw event whose tag equals the extension's event base plus its
\* notify offset always translates to RandrNotify, whatever its other
\* fields, also when that sum is a core tag such as key-press or map-notify.
C3_ExtensionTagIsRandrNotify ==
    (/\ ret.op = "wait_for_event"
     /\ ret.arg.kind = "event"
     /\ ret.arg.tag = randr_base + RANDR_NOTIFY) =>
        ret.out = Some(RandrNotify)

\* C3 witness: a map-notify tag that is the extension's notify tag, with a
\* window and the override flag set in the payload, gave RandrNotify
C3_Witness ==
    /\ ret.op = "wait_for_event"
    /\ ret.arg.kind = "event"
    /\ randr_base + RANDR_NOTIFY = MAP_NOTIFY
    /\ ret.arg.tag = MAP_NOTIFY
    /\ ret.arg.d8 = 2
    /\ ret.arg.d12 = 1
    /\ ret.out = Some(RandrNotify)

\* C4: for every raw tag outside the recognized set and every 8-bit event
\* base, the translation returns no event and never panics.
C4_UnrecognizedTagIsNone ==
    (/\ ret.op = "wait_for_event"
     /\ ret.arg.kind = "event"
     /\ ret.arg.tag \notin RecognizedTags(randr_base)) =>
        ret.out = None

-----------------------------------------------------------------------------
(* The server's side of a property read *)

\* names the server knows that are not in ATOMS
ForeignAtomNames == <<"_KDE_NET_WM_WINDOW_TYPE_OVERRIDE">>

\* the id the server of offset k has for a name
ServerAtom(k, name) ==
    IF name \in Range(ATOMS)
       THEN intern_atom(k, name)
       ELSE k + Len(ATOMS) +
            (CHOOSE i \in DOMAIN ForeignAtomNames : ForeignAtomNames[i] = name)

\* the window types of the table, and the foreign one
WindowTypeNames ==
    Range(AUTO_FLOAT_WINDOW_TYPES)
        \cup {"_NET_WM_WINDOW_TYPE_COMBO", "_NET_WM_WINDOW_TYPE_DND",
              "_NET_WM_WINDOW_TYPE_NORMAL"}
        \cup Range(ForeignAtomNames)

\* the reply to xcb::get_property(conn, false, id, atom, ATOM_ANY, 0, n):
\* server.props[id][name] is the reply the server gives for the property
\* called name of window id: ReplyErr, or Ok(value), the value being bytes
\* for a string property and atom names for _NET_WM_WINDOW_TYPE, which the
\* server sends as its ids of those names.  A property the server has no
\* entry for is not set: the reply is an empty value.
get_property(id, atom_id) ==
    LET k == server.atom_offset
        named == {n \in DOMAIN server.props[id] : ServerAtom(k, n) = atom_id}
    IN IF named = {}
          THEN Ok(<<>>)
          ELSE LET n == CHOOSE x \in named : TRUE
                   r == server.props[id][n]
               IN IF r.tag = "Err" \/ n # "_NET_WM_WINDOW_TYPE"
                     THEN r
                     ELSE Ok([i \in DOMAIN r.val |-> ServerAtom(k, r.val[i])])

-----------------------------------------------------------------------------
(* XcbConnection: atom, str_prop, window_should_float, window_has_type_in,   *)
(* query_for_active_windows                                                *)

\* lines 431-436: the id of a name of the table; expect() panics otherwise
atom(name) ==
    IF name \in DOMAIN atoms
       THEN Ok(atoms[name])
       ELSE Panic("is not a known atom")

IsCont(b) == 128 <= b /\ b <= 191

\* String::from_utf8 accepts exactly the well-formed UTF-8 byte sequences
RECURSIVE ValidUtf8(_)
ValidUtf8(b) ==
    LET n == Len(b)
        rest(k) == SubSeq(b, k + 1, n)
    IN IF n = 0 THEN TRUE
       ELSE IF b[1] <= 127 THEN ValidUtf8(rest(1))
       ELSE IF 194 <= b[1] /\ b[1] <= 223
          THEN n >= 2 /\ IsCont(b[2]) /\ ValidUtf8(rest(2))
       ELSE IF 224 <= b[1] /\ b[1] <= 239
          THEN /\ n >= 3
               /\ IsCont(b[2]) /\ IsCont(b[3])
               /\ (b[1] = 224 => b[2] >= 160)
               /\ (b[1] = 237 => b[2] <= 159)
               /\ ValidUtf8(rest(3))
       ELSE IF 240 <= b[1] /\ b[1] <= 244
          THEN /\ n >= 4
               /\ IsCont(b[2]) /\ IsCont(b[3]) /\ IsCont(b[4])
               /\ (b[1] = 240 => b[2] >= 144)
               /\ (b[1] = 244 => b[2] <= 143)
               /\ ValidUtf8(rest(4))
       ELSE FALSE

\* String::from_utf8(bytes): a String is its UTF-8 bytes
from_utf8(bytes) ==
    IF ValidUtf8(bytes) THEN Ok(bytes) ELSE Err("invalid utf8")

\* lines 870-889
str_prop(id, name) ==
    IF atom(name).tag = "Panic"
       THEN atom(name)
       ELSE LET reply == get_property(id, atom(name).val)
            IN IF reply.tag = "Err"
                  THEN Err("unable to fetch window property")
                  ELSE IF from_utf8(reply.val).tag = "Err"
                          THEN Err("invalid utf8 resonse from xcb")
                          ELSE Ok(from_utf8(reply.val).val)

\* s.split("\0"): the pieces between the NUL bytes, empty ones included
RECURSIVE SplitNul(_)
SplitNul(s) ==
    LET nuls == {i \in DOMAIN s : s[i] = 0}
    IN IF nuls = {}
          THEN <<s>>
          ELSE LET i == CHOOSE x \in nuls : \A y \in nuls : x <= y
               IN <<SubSeq(s, 1, i - 1)>> \o SplitNul(SubSeq(s, i + 1, Len(s)))

\* iter().any(|t| list.contains(t))
AnyIn(values, list) == \E i \in DOMAIN values : values[i] \in Range(list)

\* lines 452-468
window_has_type_in(id, win_types) ==
    LET reply == get_property(id, atom("_NET_WM_WINDOW_TYPE").val)
    IN IF reply.tag = "Err" THEN FALSE ELSE AnyIn(reply.val, win_types)

\* a slip: the window type is consulted first and a tileable type wins
window_should_float_typeFirst(id, floating_classes) ==
    LET reply == get_property(id, atom("_NET_WM_WINDOW_TYPE").val)
    IN IF reply.tag = "Err"
          THEN FALSE
          ELSE IF AnyIn(reply.val, auto_float_types)
                  THEN TRUE
                  ELSE /\ reply.val = <<>>
                       /\ str_prop(id, "WM_CLASS").tag = "Ok"
                       /\ AnyIn(SplitNul(str_prop(id, "WM_CLASS").val),
                                floating_classes)

\* a slip: a window whose type cannot be read floats
window_should_float_errFloats(id, floating_classes) ==
    LET class == str_prop(id, "WM_CLASS")
    IN IF class.tag = "Ok" /\ AnyIn(SplitNul(class.val), floating_classes)
          THEN TRUE
          ELSE LET reply == get_property(id, atom("_NET_WM_WINDOW_TYPE").val)
               IN IF reply.tag = "Err"
                     THEN TRUE
                     ELSE AnyIn(reply.val, auto_float_types)

\* lines 796-825
window_should_float(id, floating_classes) ==
    LET class == str_prop(id, "WM_CLASS")
    IN IF class.tag = "Ok" /\ AnyIn(SplitNul(class.val), floating_classes)
          THEN TRUE
          ELSE LET reply == get_property(id, atom("_NET_WM_WINDOW_TYPE").val)
               IN IF reply.tag = "Err"
                     THEN FALSE
                     ELSE AnyIn(reply.val, auto_float_types)

\* an operation that reads no event: the inbox stays as it is
XcbCall(op, arg, reqs, out) ==
    /\ XcbStep(op, arg, reqs, out)
    /\ UNCHANGED inbox

\* lists of floating class names: none; "a"; "aa" and e-acute; the empty name
FloatingClassLists ==
    {<<>>, << <<97>> >>, << <<97, 97>>, <<195, 169>> >>, << <<>> >>}

Xcb_window_should_float ==
    \E id \in Windows, floating_classes \in FloatingClassLists :
        XcbCall("window_should_float",
                [id |-> id, floating_classes |-> floating_classes],
                <<>>, Ret(window_should_float(id, floating_classes)))

Xcb_str_prop ==
    \E id \in Windows, name \in PropNames :
        XcbCall("str_prop", [id |-> id, name |-> name], <<>>,
                str_prop(id, name))

\* a slip: a property that is not set reads as the id 0
atom_prop_zeroForUnset(id, name) ==
    IF atom(name).tag = "Panic"
       THEN atom(name)
       ELSE LET reply == get_property(id, atom(name).val)
            IN IF reply.tag = "Err"
                  THEN Err("unable to fetch window property")
                  ELSE IF Len(reply.val) <= 0
                          THEN Ok(0)
                          ELSE Ok(reply.val[1])

\* lines 891-913
atom_prop(id, name) ==
    IF atom(name).tag = "Panic"
       THEN atom(name)
       ELSE LET reply == get_property(id, atom(name).val)
            IN IF reply.tag = "Err"
                  THEN Err("unable to fetch window property")
                  ELSE IF Len(reply.val) <= 0
                          THEN Err("property was empty")
                          ELSE Ok(reply.val[1])

Xcb_atom_prop ==
    \E id \in Windows,
       name \in {"_NET_WM_WINDOW_TYPE", "_NET_WM_DESKTOP", "NOT_AN_ATOM"} :
        XcbCall("atom_prop", [id |-> id, name |-> name], <<>>,
                atom_prop(id, name))

\* a slip: a window whose type cannot be read is left out
query_for_active_windows_dropsUnreadable ==
    LET reply == server.tree
        all_ids == IF reply.tag = "Err" THEN <<>> ELSE reply.val
        dont_manage == <<atom("_NET_WM_WINDOW_TYPE_DOCK").val,
                         atom("_NET_WM_WINDOW_TYPE_TOOLBAR").val>>
        keep(id) ==
            /\ get_property(id, atom("_NET_WM_WINDOW_TYPE").val).tag = "Ok"
            /\ ~window_has_type_in(id, dont_manage)
    IN SelectSeq(all_ids, keep)

\* lines 852-868
query_for_active_windows ==
    LET reply == server.tree
        all_ids == IF reply.tag = "Err" THEN <<>> ELSE reply.val
        dont_manage == <<atom("_NET_WM_WINDOW_TYPE_DOCK").val,
                         atom("_NET_WM_WINDOW_TYPE_TOOLBAR").val>>
        keep(id) == ~window_has_type_in(id, dont_manage)
    IN SelectSeq(all_ids, keep)

Xcb_query_for_active_windows ==
    XcbCall("query_for_active_windows", Unit, <<>>,
            Ret(query_for_active_windows))

\* Screen::from_crtc_info_reply(r, i)
from_crtc_info_reply(r, i) == Screen(i, Region(r.x, r.y, r.w, r.h))

\* lines 552-557, given the CRTC info replies in the order of reply.crtcs():
\* flat_map drops the failed replies, enumerate numbers the rest from 0
CrtcScreens(infos) ==
    LET isOk(r) == r.tag = "Ok"
        replies == SelectSeq(infos, isOk)
    IN [i \in DOMAIN replies |-> from_crtc_info_reply(replies[i].val, i - 1)]

\* a slip: the filter looks at the height
current_outputs_byHeight ==
    LET resources == server.resources
        tall(scr) == scr.true_region.h > 0
    IN IF resources.tag = "Err"
          THEN Panic("error reading X screen resources")
          ELSE Ret(SelectSeq(CrtcScreens(resources.val), tall))

\* a slip: a failed screen-resources query answers the empty list
current_outputs_emptyOnError ==
    LET resources == server.resources
        wide(scr) == scr.true_region.w > 0
    IN IF resources.tag = "Err"
          THEN Ret(<<>>)
          ELSE Ret(SelectSeq(CrtcScreens(resources.val), wide))

\* lines 545-564
current_outputs ==
    LET resources == server.resources
        wide(scr) == scr.true_region.w > 0
    IN IF resources.tag = "Err"
          THEN Panic("error reading X screen resources")
          ELSE Ret(SelectSeq(CrtcScreens(resources.val), wide))

Xcb_current_outputs == XcbCall("current_outputs", Unit, <<>>, current_outputs)

-----------------------------------------------------------------------------
(* Specifications of the queries: the server's replies are drawn at the    *)
(* start, the XcbConnection is as new() returned it                        *)

\* bytes of a string property: NUL, 'a', and the two bytes of e-acute
StringReplies ==
    LET PropBytes == {0, 97, 195, 169}
    IN {ReplyErr} \cup {Ok(b) : b \in SeqsUpTo(PropBytes, MaxLen)}

\* values of _NET_WM_WINDOW_TYPE: every list over four types up to MaxTypes
\* long, and every single type
TypeReplies ==
    LET TypePool ==
            {"_NET_WM_WINDOW_TYPE_NORMAL", "_NET_WM_WINDOW_TYPE_NOTIFICATION",
             "_NET_WM_WINDOW_TYPE_DOCK", "_KDE_NET_WM_WINDOW_TYPE_OVERRIDE"}
    IN {ReplyErr} \cup {Ok(t) : t \in SeqsUpTo(TypePool, MaxTypes)}
           \cup {Ok(<<n>>) : n \in WindowTypeNames}

\* window 1 has the drawn replies, the other windows have nothing set
PropsOfWindow1(f) == [w \in Windows |-> IF w = 1 THEN f ELSE <<>>]

XcbServing(srv) ==
    /\ XcbReady(srv.atom_offset, srv.boot.ext.val)
    /\ server = srv
    /\ inbox = <<>>
    /\ MockUnbuilt
    /\ ret = NoCall

InitFloat ==
    \E class \in StringReplies, type \in TypeReplies :
        XcbServing(ServerWith(
            PropsOfWindow1([WM_CLASS |-> class, _NET_WM_WINDOW_TYPE |-> type]),
            Ok(<<>>), Ok(<<>>)))

NextFloat == Xcb_window_should_float

SpecFloat == InitFloat /\ [][NextFloat]_vars

\* window 1 has a name, and a desktop number that is a failed read, not
\* set, or one or two 32-bit values of which the first may be 0
InitProps ==
    LET CardinalReplies ==
            {ReplyErr, Ok(<<>>), Ok(<<0>>), Ok(<<7>>), Ok(<<0, 7>>),
             Ok(<<7, 0>>)}
    IN \E name \in StringReplies, desktop \in CardinalReplies :
          XcbServing(ServerWith(
              PropsOfWindow1([WM_NAME |-> name, _NET_WM_DESKTOP |-> desktop]),
              Ok(<<>>), Ok(<<>>)))

NextProps == Xcb_str_prop \/ Xcb_atom_prop

SpecProps == InitProps /\ [][NextProps]_vars

\* the children of the root: windows in any order, none twice
TreeReplies ==
    {ReplyErr} \cup
    {Ok(c) : c \in {s \in SeqsUpTo(Windows, MaxWin) :
                       \A i, j \in DOMAIN s : i # j => s[i] # s[j]}}
ChildTypeReplies ==
    {ReplyErr, Ok(<<>>),
     Ok(<<"_NET_WM_WINDOW_TYPE_DOCK">>),
     Ok(<<"_NET_WM_WINDOW_TYPE_TOOLBAR">>),
     Ok(<<"_NET_WM_WINDOW_TYPE_NORMAL">>),
     Ok(<<"_NET_WM_WINDOW_TYPE_NOTIFICATION">>),
     Ok(<<"_NET_WM_WINDOW_TYPE_NORMAL", "_NET_WM_WINDOW_TYPE_DOCK">>)}

InitWindows ==
    \E tree \in TreeReplies, types \in [Windows -> ChildTypeReplies] :
        XcbServing(ServerWith(
            [w \in Windows |-> [_NET_WM_WINDOW_TYPE |-> types[w]]],
            tree, Ok(<<>>)))

NextWindows == Xcb_query_for_active_windows

SpecWindows == InitWindows /\ [][NextWindows]_vars

\* get_crtc_info replies: a failure, or a CRTC at x 0 or 1920 of width 0 or
\* 1920 and height 0 or 1080
CrtcReplies ==
    {ReplyErr} \cup
    {Ok(Region(x, 0, w, h)) : x \in {0, 1920}, w \in {0, 1920}, h \in {0, 1080}}
ResourcesReplies ==
    {ReplyErr} \cup {Ok(infos) : infos \in SeqsUpTo(CrtcReplies, MaxCrtcs)}

InitOutputs ==
    \E resources \in ResourcesReplies :
        XcbServing(ServerWith(NoProps, Ok(<<>>), resources))

NextOutputs == Xcb_current_outputs

SpecOutputs == InitOutputs /\ [][NextOutputs]_vars

-----------------------------------------------------------------------------
(* Claims about the queries *)

\* the reply the server gives for property name of the window the last
\* operation asked about
AskedReply(name) ==
    LET f == server.props[ret.arg.id]
    IN IF name \in DOMAIN f THEN f[name] ELSE Ok(<<>>)

\* piece is one of the NUL-separated entries of the byte string s
IsEntry(piece, s) ==
    \E i \in 1..(Len(s) + 1) :
        LET j == i + Len(piece) - 1
        IN /\ j <= Len(s)
           /\ SubSeq(s, i, j) = piece
           /\ \A x \in DOMAIN piece : piece[x] # 0
           /\ (i = 1 \/ s[i - 1] = 0)
           /\ (j = Len(s) \/ s[j + 1] = 0)

\* the window's WM_CLASS was read as a string and one of its entries is in
\* the floating classes of the last call
ClassMatches ==
    /\ AskedReply("WM_CLASS").tag = "Ok"
    /\ ValidUtf8(AskedReply("WM_CLASS").val)
    /\ \E x \in DOMAIN ret.arg.floating_classes :
          IsEntry(ret.arg.floating_classes[x], AskedReply("WM_CLASS").val)

\* C5: window_should_float returns true whenever an entry of the window's
\* WM_CLASS string is in floating_classes, whatever the window's type
\* property holds and also when reading the type property fails.
C5_ClassRuleFirst ==
    (ret.op = "window_should_float" /\ ClassMatches) => ret.out = Ret(TRUE)

\* C5 witness: the class "a" NUL "a" matched the listed class "a" while the
\* read of the type property would fail
C5_Witness ==
    /\ ret.op = "window_should_float"
    /\ AskedReply("WM_CLASS") = Ok(<<97, 0, 97>>)
    /\ ret.arg.floating_classes = << <<97>> >>
    /\ AskedReply("_NET_WM_WINDOW_TYPE") = ReplyErr
    /\ ret.out = Ret(TRUE)

\* the ten window types the claim lists as floating
ClaimedFloatTypes ==
    {"_NET_WM_WINDOW_TYPE_DESKTOP", "_NET_WM_WINDOW_TYPE_DIALOG",
     "_NET_WM_WINDOW_TYPE_DOCK", "_NET_WM_WINDOW_TYPE_DROPDOWN_MENU",
     "_NET_WM_WINDOW_TYPE_MENU", "_NET_WM_WINDOW_TYPE_NOTIFICATION",
     "_NET_WM_WINDOW_TYPE_POPUP_MENU", "_NET_WM_WINDOW_TYPE_SPLASH",
     "_NET_WM_WINDOW_TYPE_TOOLBAR", "_NET_WM_WINDOW_TYPE_UTILITY"}

\* C6: when no WM_CLASS entry is in floating_classes (also when the WM_CLASS
\* read fails), window_should_float returns true iff the window's
\* _NET_WM_WINDOW_TYPE value holds an atom of the auto-float set; when the
\* type lookup fails it returns false.
C6_TypeRuleSecond ==
    (ret.op = "window_should_float" /\ ~ClassMatches) =>
        ret.out = Ret(/\ AskedReply("_NET_WM_WINDOW_TYPE").tag = "Ok"
                      /\ Range(AskedReply("_NET_WM_WINDOW_TYPE").val)
                            \cap ClaimedFloatTypes # {})

\* C6 witness: the WM_CLASS bytes are no string, the type list holds normal
\* and notification, and the window floats
C6_Witness ==
    /\ ret.op = "window_should_float"
    /\ AskedReply("WM_CLASS") = Ok(<<97, 195>>)
    /\ ret.arg.floating_classes = << <<97>> >>
    /\ AskedReply("_NET_WM_WINDOW_TYPE") =
          Ok(<<"_NET_WM_WINDOW_TYPE_NORMAL", "_NET_WM_WINDOW_TYPE_NOTIFICATION">>)
    /\ ret.out = Ret(TRUE)

\* the server's reply about the type of child w holds dock or toolbar
IsDockOrToolbar(w) ==
    LET r == server.props[w]["_NET_WM_WINDOW_TYPE"]
    IN /\ r.tag = "Ok"
       /\ Range(r.val) \cap {"_NET_WM_WINDOW_TYPE_DOCK",
                             "_NET_WM_WINDOW_TYPE_TOOLBAR"} # {}

\* C7: query_for_active_windows returns, in the server's order, exactly the
\* children of the root whose type holds neither dock nor toolbar; a child
\* whose type lookup fails is included; a failed tree query gives <<>>.
C7_ActiveWindows ==
    ret.op = "query_for_active_windows" =>
        LET managed(w) == ~IsDockOrToolbar(w)
        IN ret.out = Ret(IF server.tree.tag = "Err"
                            THEN <<>>
                            ELSE SelectSeq(server.tree.val, managed))

\* C7 witness: of the children 2, 1 the dock 2 is left out and 1, whose type
\* cannot be read, is returned
C7_Witness ==
    /\ ret.op = "query_for_active_windows"
    /\ server.tree = Ok(<<2, 1>>)
    /\ server.props[2]["_NET_WM_WINDOW_TYPE"] = Ok(<<"_NET_WM_WINDOW_TYPE_DOCK">>)
    /\ server.props[1]["_NET_WM_WINDOW_TYPE"] = ReplyErr
    /\ ret.out = Ret(<<1>>)

\* the regions of the CRTC replies that succeeded with a width above zero
RECURSIVE WideRegions(_)
WideRegions(infos) ==
    IF infos = <<>> THEN <<>>
    ELSE (IF Head(infos).tag = "Ok" /\ Head(infos).val.w > 0
             THEN <<Head(infos).val>> ELSE <<>>) \o WideRegions(Tail(infos))

\* C8: current_outputs never returns a Screen of zero width: the result has
\* one Screen per CRTC reply of width > 0, in order, and none for width 0.
C8_NoZeroWidthScreen ==
    (ret.op = "current_outputs" /\ ret.out.tag # "Panic") =>
        /\ \A i \in DOMAIN ret.out.val : ret.out.val[i].true_region.w > 0
        /\ [i \in DOMAIN ret.out.val |-> ret.out.val[i].true_region]
              = WideRegions(server.resources.val)

\* C8 witness: a zero-width CRTC and a valid one give exactly one Screen
C8_Witness ==
    /\ ret.op = "current_outputs"
    /\ server.resources =
          Ok(<<Ok(Region(0, 0, 0, 1080)), Ok(Region(1920, 0, 1920, 1080))>>)
    /\ ret.out.tag = "Value"
    /\ Len(ret.out.val) = 1

\* C10: str_prop returns a failure Result with a cause string when the name
\* is not in the atom table, when the round-trip fails and when the bytes
\* are not valid UTF-8; otherwise it returns the property's text.
C10_StrPropFailsWithResult ==
    ret.op = "str_prop" =>
        IF \/ ret.arg.name \notin Range(ATOMS)
           \/ AskedReply(ret.arg.name).tag = "Err"
           \/ ~ValidUtf8(AskedReply(ret.arg.name).val)
           THEN ret.out.tag = "Err"
           ELSE ret.out = Ok(AskedReply(ret.arg.name).val)

-----------------------------------------------------------------------------
(* XcbConnection: the remaining operations *)

\* `n as i16` of a u32: the low 16 bits, read as signed
AsI16(n) == (((n % U16Mod) + 32768) % U16Mod) - 32768

\* xcb::change_property(conn, PROP_MODE_REPLACE, window, prop, type, fmt, data)
change_property(window, prop, type, format, data) ==
    [req |-> "change_property", mode |-> "PROP_MODE_REPLACE",
     window |-> window, property |-> prop, type |-> type,
     format |-> format, data |-> data]

delete_property(window, prop) ==
    [req |-> "delete_property", window |-> window, property |-> prop]

change_window_attributes(window, values) ==
    [req |-> "change_window_attributes", window |-> window, values |-> values]

\* line 37-40
NEW_WINDOW_MASK ==
    << <<"CW_EVENT_MASK", {"EVENT_MASK_ENTER_WINDOW", "EVENT_MASK_LEAVE_WINDOW"}>> >>
\* line 41-43
MOUSE_MASK ==
    {"EVENT_MASK_BUTTON_PRESS", "EVENT_MASK_BUTTON_RELEASE",
     "EVENT_MASK_POINTER_MOTION"}
\* line 44-47
EVENT_MASK == << <<"CW_EVENT_MASK", {"EVENT_MASK_SUBSTRUCTURE_NOTIFY"}>> >>
\* line 19, as bytes
WM_NAME == <<112, 101, 110, 114, 111, 115, 101>>

\* lines 472-474
Xcb_flush == XcbCall("flush", Unit, <<>>, Ret(server.link))

\* lines 566-572
cursor_position ==
    IF server.pointer.tag = "Err"
       THEN Point(U32(0), U32(0))
       ELSE Point(I16AsU32(server.pointer.val.root_x),
                  I16AsU32(server.pointer.val.root_y))

Xcb_cursor_position ==
    XcbCall("cursor_position", Unit, <<>>, Ret(cursor_position))

\* lines 574-590
Xcb_position_window ==
    \E id \in Windows, r \in {Region(0, 0, 10, 20)}, border \in {0, 2} :
        XcbCall("position_window", [id |-> id, r |-> r, border |-> border],
                <<[req |-> "configure_window", window |-> id,
                   values |-> << <<"WIN_X", r.x>>, <<"WIN_Y", r.y>>,
                                 <<"WIN_WIDTH", r.w>>, <<"WIN_HEIGHT", r.h>>,
                                 <<"WIN_BORDER", border>>,
                                 <<"STACK_MODE", "STACK_ABOVE">> >>]>>,
                Unit)

\* lines 592-595
Xcb_mark_new_window ==
    \E id \in Windows :
        XcbCall("mark_new_window", [id |-> id],
                <<change_window_attributes(id, NEW_WINDOW_MASK)>>, Unit)

\* lines 597-599
Xcb_map_window ==
    \E id \in Windows :
        XcbCall("map_window", [id |-> id],
                <<[req |-> "map_window", window |-> id]>>, Unit)

\* lines 601-603
Xcb_unmap_window ==
    \E id \in Windows :
        XcbCall("unmap_window", [id |-> id],
                <<[req |-> "unmap_window", window |-> id]>>, Unit)

\* lines 605-611
Xcb_send_client_event ==
    \E id \in Windows, atom_name \in {"WM_DELETE_WINDOW", "NOT_AN_ATOM"} :
        IF atom(atom_name).tag = "Panic"
           THEN XcbCall("send_client_event",
                        [id |-> id, atom_name |-> atom_name], <<>>,
                        atom(atom_name))
           ELSE XcbCall("send_client_event",
                        [id |-> id, atom_name |-> atom_name],
                        <<[req |-> "send_event", propagate |-> FALSE,
                           destination |-> id,
                           event_mask |-> "EVENT_MASK_NO_EVENT",
                           event |-> [format |-> 32, window |-> id,
                                      type |-> atom("WM_PROTOCOLS").val,
                                      data |-> <<atom(atom_name).val,
                                                 "CURRENT_TIME", 0, 0, 0>>]]>>,
                        Unit)

\* a slip: a failed focus query answers the root window
focused_client_rootOnError ==
    IF server.focus.tag = "Err" THEN root ELSE server.focus.val

\* lines 613-619
focused_client ==
    IF server.focus.tag = "Err" THEN 0 ELSE server.focus.val

Xcb_focused_client ==
    XcbCall("focused_client", Unit, <<>>, Ret(focused_client))

\* lines 621-642
Xcb_focus_client ==
    \E id \in Windows :
        XcbCall("focus_client", [id |-> id],
                <<[req |-> "set_input_focus",
                   revert_to |-> "INPUT_FOCUS_PARENT", focus |-> id,
                   time |-> 0],
                  change_property(root, atom("_NET_ACTIVE_WINDOW").val,
                                  "ATOM_WINDOW", 32, <<id>>)>>,
                Unit)

\* lines 644-646
Xcb_set_client_border_color ==
    \E id \in Windows, color \in {255} :
        XcbCall("set_client_border_color", [id |-> id, color |-> color],
                <<change_window_attributes(id, << <<"CW_BORDER_PIXEL", color>> >>)>>,
                Unit)

\* the key sets of the bindings a configuration may hold
KeyBindingKeys ==
    {{}, {KeyCode(64, 38)}, {KeyCode(64, 38), KeyCode(65, 24)}}

\* the orders in which a HashMap may yield its keys
KeyOrders(keys) ==
    {o \in [1..Cardinality(keys) -> keys] :
        \A i, j \in DOMAIN o : i # j => o[i] # o[j]}

\* a slip: the flush comes before the event mask of the root is changed
grab_keys_flushEarly(order) ==
    [i \in DOMAIN order |->
        [req |-> "grab_key", owner_events |-> FALSE, grab_window |-> root,
         modifiers |-> order[i].mask, key |-> order[i].code,
         pointer_mode |-> "GRAB_MODE_ASYNC",
         keyboard_mode |-> "GRAB_MODE_ASYNC"]]
    \o [i \in 1..2 |->
        [req |-> "grab_button", owner_events |-> FALSE, grab_window |-> root,
         event_mask |-> MOUSE_MASK, pointer_mode |-> "GRAB_MODE_ASYNC",
         keyboard_mode |-> "GRAB_MODE_ASYNC", confine_to |-> "NONE",
         cursor |-> "NONE", button |-> <<1, 3>>[i],
         modifiers |-> "MOD_MASK_4"]]
    \o <<[req |-> "flush"], change_window_attributes(root, EVENT_MASK)>>

\* lines 648-682: the requests of grab_keys when the keys come in this order
grab_keys(order) ==
    [i \in DOMAIN order |->
        [req |-> "grab_key", owner_events |-> FALSE, grab_window |-> root,
         modifiers |-> order[i].mask, key |-> order[i].code,
         pointer_mode |-> "GRAB_MODE_ASYNC",
         keyboard_mode |-> "GRAB_MODE_ASYNC"]]
    \o [i \in 1..2 |->
        [req |-> "grab_button", owner_events |-> FALSE, grab_window |-> root,
         event_mask |-> MOUSE_MASK, pointer_mode |-> "GRAB_MODE_ASYNC",
         keyboard_mode |-> "GRAB_MODE_ASYNC", confine_to |-> "NONE",
         cursor |-> "NONE", button |-> <<1, 3>>[i],
         modifiers |-> "MOD_MASK_4"]]
    \o <<change_window_attributes(root, EVENT_MASK), [req |-> "flush"]>>

Xcb_grab_keys ==
    \E keys \in KeyBindingKeys :
        \E order \in KeyOrders(keys) :
            XcbCall("grab_keys", [keys |-> keys], grab_keys(order), Unit)

\* lists of workspace names, joined with NUL: none, "1", "1" NUL "2"
WorkspaceLists == {<<>>, <<<<49>>>>, <<<<49>>, <<50>>>>}

RECURSIVE JoinNul(_)
JoinNul(names) ==
    IF names = <<>> THEN <<>>
    ELSE IF Len(names) = 1 THEN names[1]
    ELSE names[1] \o <<0>> \o JoinNul(Tail(names))

\* lines 739-758: the two requests, the names joined with NUL
update_desktops(workspaces) ==
    <<change_property(root, atom("_NET_NUMBER_OF_DESKTOPS").val,
                      "ATOM_CARDINAL", 32, <<Len(workspaces)>>),
      change_property(root, atom("_NET_DESKTOP_NAMES").val,
                      atom("UTF8_STRING").val, 8, JoinNul(workspaces))>>

Xcb_update_desktops ==
    \E workspaces \in WorkspaceLists :
        XcbCall("update_desktops", [workspaces |-> workspaces],
                update_desktops(workspaces), Unit)

\* lines 684-737
Xcb_set_wm_properties ==
    \E workspaces \in WorkspaceLists :
        XcbCall("set_wm_properties", [workspaces |-> workspaces],
                <<change_property(check_win,
                                  atom("_NET_SUPPORTING_WM_CHECK").val,
                                  "ATOM_WINDOW", 32, <<check_win>>),
                  change_property(check_win, atom("_NET_WM_NAME").val,
                                  atom("UTF8_STRING").val, 8, WM_NAME),
                  change_property(root, atom("_NET_SUPPORTING_WM_CHECK").val,
                                  "ATOM_WINDOW", 32, <<check_win>>),
                  change_property(root, atom("_NET_WM_NAME").val,
                                  atom("UTF8_STRING").val, 8, WM_NAME),
                  change_property(root, atom("_NET_SUPPORTED").val,
                                  "ATOM_ATOM", 32,
                                  [i \in DOMAIN ATOMS |-> atom(ATOMS[i]).val])>>
                \o update_desktops(workspaces)
                \o <<delete_property(root, atom("_NET_CLIENT_LIST").val)>>,
                Unit)

\* lines 760-770
Xcb_set_current_workspace ==
    \E wix \in {0, 1} :
        XcbCall("set_current_workspace", [wix |-> wix],
                <<change_property(root, atom("_NET_CURRENT_DESKTOP").val,
                                  "ATOM_CARDINAL", 32, <<wix>>)>>,
                Unit)

\* lines 772-782
Xcb_set_root_window_name ==
    \E name \in {<<>>, <<97>>} :
        XcbCall("set_root_window_name", [name |-> name],
                <<change_property(root, atom("WM_NAME").val,
                                  atom("UTF8_STRING").val, 8, name)>>,
                Unit)

\* lines 784-794
Xcb_set_client_workspace ==
    \E id \in Windows, wix \in {0, 1} :
        XcbCall("set_client_workspace", [id |-> id, wix |-> wix],
                <<change_property(id, atom("_NET_WM_DESKTOP").val,
                                  "ATOM_CARDINAL", 32, <<wix>>)>>,
                Unit)

\* lines 438-450
window_geometry(id) ==
    IF server.geometry.tag = "Err"
       THEN Err("unable to fetch window property")
       ELSE Ok(server.geometry.val)

warp_pointer(dst, x, y) ==
    [req |-> "warp_pointer", src_window |-> 0, dst_window |-> dst,
     src_x |-> 0, src_y |-> 0, src_width |-> 0, src_height |-> 0,
     dst_x |-> x, dst_y |-> y]

\* lines 827-850
Xcb_warp_cursor ==
    \E win_id \in {None} \cup {Some(id) : id \in Windows},
       screen \in {Screen(0, Region(1920, 0, 1920, 1080))} :
        LET arg == [win_id |-> win_id, screen |-> screen]
            e == screen.effective_region
        IN IF win_id.tag = "Some"
              THEN IF window_geometry(win_id.val).tag = "Err"
                      THEN XcbCall("warp_cursor", arg, <<>>,
                                   Panic("called Result::unwrap() on an Err value"))
                      ELSE XcbCall("warp_cursor", arg,
                               <<warp_pointer(win_id.val,
                                   AsI16(window_geometry(win_id.val).val.w \div 2),
                                   AsI16(window_geometry(win_id.val).val.h \div 2))>>,
                               Unit)
              ELSE XcbCall("warp_cursor", arg,
                           <<warp_pointer(root, AsI16(e.x + e.w \div 2),
                                          AsI16(e.y + e.h \div 2))>>,
                           Unit)

\* a slip: shutting down also forgets the interned atoms
Xcb_cleanup_forgetsAtoms ==
    /\ phase = "Ready"
    /\ ret' = [impl |-> "XcbConnection", op |-> "cleanup", arg |-> Unit,
               reqs |-> <<>>, out |-> Unit]
    /\ atoms' = <<>>
    /\ auto_float_types' = <<>>
    /\ UNCHANGED <<root, check_win, randr_base, phase, mockVars, srvVars>>

\* lines 920-930
Xcb_cleanup ==
    XcbCall("cleanup", Unit,
            <<[req |-> "ungrab_key", key |-> "GRAB_ANY", grab_window |-> root,
               modifiers |-> "MOD_MASK_ANY"],
              [req |-> "destroy_window", window |-> check_win],
              delete_property(root, atom("_NET_ACTIVE_WINDOW").val)>>,
            Unit)

\* lines 363-429: new() against the server's boot answers
Xcb_new ==
    /\ phase = "Uninitialized"
    /\ UNCHANGED <<mockVars, inbox>>
    /\ LET boot == server.boot
           create_window ==
               [req |-> "create_window", wid |-> CheckWindow,
                parent |-> RootWindow, x |-> 0, y |-> 0, width |-> 1,
                height |-> 1, border_width |-> 0,
                class |-> "WINDOW_CLASS_INPUT_ONLY"]
           failure ==
               IF ~boot.connect
                  THEN "unable to establish connection to X server"
               ELSE IF ~boot.has_root
                  THEN "unable to get handle for screen"
               ELSE IF ~boot.intern
                  THEN "unable to intern xcb atom"
               ELSE IF boot.ext.tag = "None"
                  THEN "called Option::unwrap() on a None value"
               ELSE IF ~boot.select_input
                  THEN "xrandr error"
               ELSE ""
       IN IF failure # ""
             THEN /\ phase' = "Aborted"
                  /\ ret' = [impl |-> "XcbConnection", op |-> "new",
                             arg |-> Unit, reqs |-> <<>>,
                             out |-> Panic(failure)]
                  /\ UNCHANGED <<root, check_win, atoms, auto_float_types,
                                 randr_base, server>>
             ELSE /\ phase' = "Ready"
                  /\ root' = RootWindow
                  /\ check_win' = CheckWindow
                  /\ atoms' = InternedAtoms(server.atom_offset)
                  /\ auto_float_types' =
                        AutoFloatTypes(InternedAtoms(server.atom_offset))
                  /\ randr_base' = boot.ext.val
                  /\ ret' = [impl |-> "XcbConnection", op |-> "new",
                             arg |-> Unit, reqs |-> <<create_window>>,
                             out |-> Unit]
                  /\ server' = Serve(server, create_window)

\* what the server may answer while new() runs: all well, with an event
\* base of 0, 89 or 255, or exactly one step failing
BootReplies ==
    {BootOk(b) : b \in {0, 89, U8Max}}
    \cup {[BootOk(89) EXCEPT !.connect = FALSE],
          [BootOk(89) EXCEPT !.has_root = FALSE],
          [BootOk(89) EXCEPT !.intern = FALSE],
          [BootOk(89) EXCEPT !.create_window = FALSE],
          [BootOk(89) EXCEPT !.ext = None],
          [BootOk(89) EXCEPT !.select_input = FALSE]}

\* the replies to the queries: every round-trip fails, or every one succeeds
QueryReplies ==
    {[pointer |-> ReplyErr, focus |-> ReplyErr, geometry |-> ReplyErr,
      resources |-> ReplyErr, tree |-> ReplyErr, class |-> ReplyErr,
      type |-> ReplyErr, link |-> FALSE],
     [pointer |-> Ok([root_x |-> 3, root_y |-> -1]), focus |-> Ok(1),
      geometry |-> Ok(Region(0, 0, 640, 480)),
      resources |-> Ok(<<Ok(Region(0, 0, 1920, 1080))>>), tree |-> Ok(<<1>>),
      class |-> Ok(<<97, 0, 97, 0>>),
      type |-> Ok(<<"_NET_WM_WINDOW_TYPE_DIALOG">>), link |-> TRUE]}

\* the process before new(): any server of the small family, with nothing,
\* a key press or the loss of the connection waiting to be read
InitLive ==
    /\ root = 0
    /\ check_win = 0
    /\ atoms = <<>>
    /\ auto_float_types = <<>>
    /\ randr_base = 0
    /\ phase = "Uninitialized"
    /\ \E k \in AtomOffsets, boot \in BootReplies, q \in QueryReplies :
          server = [ServerWith(
                        PropsOfWindow1([WM_CLASS |-> q.class,
                                        _NET_WM_WINDOW_TYPE |-> q.type]),
                        q.tree, q.resources)
                    EXCEPT !.atom_offset = k, !.boot = boot, !.windows = {},
                           !.pointer = q.pointer, !.focus = q.focus,
                           !.geometry = q.geometry, !.link = q.link]
    /\ inbox \in {<<>>, <<IoError>>,
                  <<RawEvent(KEY_PRESS, 38, 0, RootWindow, 1, 0, 0, 0, 0, 64)>>}
    /\ MockUnbuilt
    /\ ret = NoCall

NextLive ==
    \/ Xcb_new
    \/ Xcb_flush
    \/ Xcb_wait_for_event
    \/ Xcb_current_outputs
    \/ Xcb_cursor_position
    \/ Xcb_position_window
    \/ Xcb_mark_new_window
    \/ Xcb_map_window
    \/ Xcb_unmap_window
    \/ Xcb_send_client_event
    \/ Xcb_focused_client
    \/ Xcb_focus_client
    \/ Xcb_set_client_border_color
    \/ Xcb_grab_keys
    \/ Xcb_set_wm_properties
    \/ Xcb_update_desktops
    \/ Xcb_set_current_workspace
    \/ Xcb_set_root_window_name
    \/ Xcb_set_client_workspace
    \/ Xcb_window_should_float
    \/ Xcb_warp_cursor
    \/ Xcb_query_for_active_windows
    \/ Xcb_str_prop
    \/ Xcb_atom_prop
    \/ Xcb_cleanup

SpecLive == InitLive /\ [][NextLive]_vars

-----------------------------------------------------------------------------
(* Claims about the atom table *)

\* C9: after bootstrap no operation modifies the atom table or the
\* auto-float set: for every name of the fixed list atom(name) is the id the
\* server interned at bootstrap, whatever operations ran since.
C9_AtomTableReadOnly ==
    phase = "Ready" =>
        /\ \A i \in DOMAIN ATOMS :
              atom(ATOMS[i]) = Ok(ServerAtom(server.atom_offset, ATOMS[i]))
        /\ auto_float_types =
              [i \in DOMAIN AUTO_FLOAT_WINDOW_TYPES |->
                  ServerAtom(server.atom_offset, AUTO_FLOAT_WINDOW_TYPES[i])]

\* C9 witness: cleanup has run on a connection whose event was read before,
\* and the dialog atom still is what the server of offset 400 interned
C9_Witness ==
    /\ phase = "Ready"
    /\ ret.op = "cleanup"
    /\ server.atom_offset = 400
    /\ inbox = <<>>
    /\ atom("_NET_WM_WINDOW_TYPE_DIALOG") = Ok(425)

-----------------------------------------------------------------------------
(* Claims about atom_prop *)

\* C11: for a name of the atom table, atom_prop returns a failure Result
\* when the round-trip fails or the property value has zero length, never
\* the id 0 in its place; otherwise it returns the first 32-bit element of
\* the value.
C11_AtomPropFirstElement ==
    (ret.op = "atom_prop" /\ ret.arg.name \in Range(ATOMS)) =>
        LET reply == AskedReply(ret.arg.name)
        IN IF reply.tag = "Err" \/ Len(reply.val) = 0
              THEN ret.out.tag = "Err"
              ELSE ret.out =
                      Ok(IF ret.arg.name = "_NET_WM_WINDOW_TYPE"
                            THEN ServerAtom(server.atom_offset, reply.val[1])
                            ELSE reply.val[1])

\* C11 witness: the desktop number of a window that has none set was asked
\* for and a failure came back
C11_Witness ==
    /\ ret.op = "atom_prop"
    /\ ret.arg.name = "_NET_WM_DESKTOP"
    /\ AskedReply("_NET_WM_DESKTOP") = Ok(<<>>)
    /\ ret.out.tag = "Err"

-----------------------------------------------------------------------------
(* Claims about the grabs *)

\* C12: after cleanup() every grab this layer installed on the root window
\* is released, the key grabs and the pointer-button grabs, the check
\* window is destroyed and the root no longer carries _NET_ACTIVE_WINDOW.
C12_CleanupReleasesEverything ==
    ret.op = "cleanup" =>
        /\ server.key_grabs = {}
        /\ server.button_grabs = {}
        /\ CheckWindow \notin server.windows
        /\ ~server.active_window_set

\* C13: grab_keys(bindings) issues, in this order: one asynchronous key grab
\* on the root for each (modifier mask, keycode) key of bindings and for no
\* other key; a pointer-button grab on the root for buttons 1 and 3 with
\* Mod4 and for no other button; a root event mask of substructure-notify
\* only; and last a flush.
C13_GrabKeysRequests ==
    ret.op = "grab_keys" =>
        LET n == Cardinality(ret.arg.keys)
            reqs == ret.reqs
        IN /\ Len(reqs) = n + 4
           /\ \A i \in 1..n :
                 /\ reqs[i].req = "grab_key"
                 /\ reqs[i].grab_window = RootWindow
                 /\ reqs[i].pointer_mode = "GRAB_MODE_ASYNC"
                 /\ reqs[i].keyboard_mode = "GRAB_MODE_ASYNC"
           /\ {[mask |-> reqs[i].modifiers, code |-> reqs[i].key] :
                  i \in 1..n} = ret.arg.keys
           /\ \A i \in 1..2 :
                 /\ reqs[n + i].req = "grab_button"
                 /\ reqs[n + i].grab_window = RootWindow
                 /\ reqs[n + i].button = <<1, 3>>[i]
                 /\ reqs[n + i].modifiers = "MOD_MASK_4"
           /\ reqs[n + 3] =
                 [req |-> "change_window_attributes", window |-> RootWindow,
                  values |->
                     << <<"CW_EVENT_MASK",
                          {"EVENT_MASK_SUBSTRUCTURE_NOTIFY"}>> >>]
           /\ reqs[n + 4] = [req |-> "flush"]

\* C13 witness: two bindings were grabbed, the one with the larger mask
\* first, and the server holds both key grabs and both button grabs
C13_Witness ==
    /\ ret.op = "grab_keys"
    /\ Cardinality(ret.arg.keys) = 2
    /\ ret.reqs[1].modifiers = 65
    /\ ret.reqs[2].modifiers = 64
    /\ ret.reqs[6] = [req |-> "flush"]
    /\ Cardinality(server.key_grabs) = 2
    /\ Cardinality(server.button_grabs) = 2

-----------------------------------------------------------------------------
(* Claims about the translated events *)

\* the last call translated a raw event of this tag in the arm of the match
\* for it: the tag is not the extension's notify tag and the sum of line 480
\* fits in a u8
InArm(tag) ==
    /\ ret.op = "wait_for_event"
    /\ ret.arg.kind = "event"
    /\ ret.arg.tag = tag
    /\ randr_base + RANDR_NOTIFY <= U8Max
    /\ randr_base + RANDR_NOTIFY # tag

\* C14 as stated: a raw map-notify event translates to Map{id, ignore} where
\* id is the raw event's "event" window field and ignore its
\* override-redirect flag.
C14_MapIdIsEventWindow ==
    InArm(MAP_NOTIFY) =>
        ret.out = Some([type |-> "Map", id |-> ret.arg.d4,
                        ignore |-> (ret.arg.d12 % 256) # 0])

\* C14 amended: a raw map-notify event translates to Map{id, ignore} where id
\* is the raw event's "window" field, the window that was mapped, and
\* ignore is its override-redirect flag, for every combination of the
\* event-window, mapped-window and override-redirect fields.
C14_MapIdIsMappedWindow ==
    InArm(MAP_NOTIFY) =>
        ret.out = Some([type |-> "Map", id |-> ret.arg.d8,
                        ignore |-> (ret.arg.d12 % 256) # 0])

\* C14 witness: window 2 was mapped, reported to window 1 with the
\* override-redirect flag set, and Map{2, true} came back
C14_Witness ==
    /\ InArm(MAP_NOTIFY)
    /\ ret.arg.d4 = 1
    /\ ret.arg.d8 = 2
    /\ ret.arg.d12 = 1
    /\ ret.out = Some([type |-> "Map", id |-> 2, ignore |-> TRUE])

\* C15: a raw enter-notify or leave-notify event translates to Enter or
\* Leave whose rpt equals the raw (root_x, root_y) and whose wpt equals the
\* raw (event_x, event_y), for every signed 16-bit coordinate, negative ones
\* included.  A u32 of the result, kept as 16-bit halves, equals the integer
\* n when its high half is 0 and its low half is n.
C15_CrossingCoordinatesVerbatim ==
    (InArm(ENTER_NOTIFY) \/ InArm(LEAVE_NOTIFY)) =>
        LET Is(u, n) == u.hi = 0 /\ u.lo = n
        IN /\ ret.out.tag = "Some"
           /\ ret.out.val.type =
                 (IF ret.arg.tag = ENTER_NOTIFY THEN "Enter" ELSE "Leave")
           /\ Is(ret.out.val.rpt.x, ret.arg.h20)
           /\ Is(ret.out.val.rpt.y, ret.arg.h22)
           /\ Is(ret.out.val.wpt.x, ret.arg.h24)
           /\ Is(ret.out.val.wpt.y, ret.arg.h26)

\* C16: wait_for_event yields ScreenChange if and only if the raw event's
\* tag is not base + notify offset and is the extension's screen-change
\* notify tag as the server delivers it, the extension's event base plus
\* the screen-change offset; no core tag and no error response (tag 0)
\* translates to ScreenChange.
C16_ScreenChangeIffServerTag ==
    (ret.op = "wait_for_event" /\ ret.arg.kind = "event") =>
        /\ ret.out = Some(ScreenChange) <=>
              /\ ret.arg.tag # randr_base + RANDR_NOTIFY
              /\ ret.arg.tag = randr_base + RANDR_SCREEN_CHANGE_NOTIFY
        /\ (ret.arg.tag \in CoreTags \cup {0} /\ randr_base > 0) =>
              ret.out # Some(ScreenChange)

\* C17: the end-of-stream result of wait_for_event is produced only by a
\* connection-level I/O error: for an event with an unrecognized tag or a
\* button press or release the caller receives a different result.
C17_EndOfStreamOnlyOnIoError ==
    (ret.op = "wait_for_event" /\ ret.out = None) =>
        ret.arg.kind = "io_error"

-----------------------------------------------------------------------------
(* Claims about the frame of the test double *)

\* C18: on the test double no operation changes the screen list; every
\* operation other than wait_for_event and focus_client leaves the event
\* queue and the focused cell unchanged and succeeds (flush answers true,
\* str_prop and atom_prop answer Ok); wait_for_event leaves the focused cell
\* and focus_client the queue unchanged; current_outputs returns the screen
\* list, which is the constructor's.
C18_MockFrame ==
    [][LET op == ret'.op
       IN /\ screens' = screens
          /\ op \notin {"wait_for_event", "focus_client"} =>
                events' = events /\ focused' = focused
          /\ op = "wait_for_event" => focused' = focused
          /\ op = "focus_client" => events' = events
          /\ op = "flush" => ret'.out = TRUE
          /\ op \in {"str_prop", "atom_prop"} => ret'.out.tag = "Ok"
          /\ op = "current_outputs" => ret'.out = screens]_vars

\* C18 witness: after the queue was polled and the focus moved,
\* current_outputs returned the one screen the constructor was given while
\* an event was still queued
C18_Witness ==
    /\ ret.op = "current_outputs"
    /\ ret.out = <<Screen(0, Region(0, 0, 2, 1))>>
    /\ calls = 1
    /\ last_focus = Some(2)
    /\ focused = 2
    /\ events # <<>>

-----------------------------------------------------------------------------
(* Claims about the defaulted queries *)

\* C19: a failed round-trip in a defaulted query is neither propagated nor
\* fatal: cursor_position returns the origin (0, 0) when the pointer query
\* fails and focused_client returns the window id 0 when the input-focus
\* query fails, and the driver stays usable.
C19_FailedQueriesDefault ==
    /\ (ret.op = "cursor_position" /\ server.pointer.tag = "Err") =>
          /\ ret.out = Ret([x |-> [hi |-> 0, lo |-> 0],
                            y |-> [hi |-> 0, lo |-> 0]])
          /\ phase = "Ready"
    /\ (ret.op = "focused_client" /\ server.focus.tag = "Err") =>
          /\ ret.out = Ret(0)
          /\ phase = "Ready"

\* C19 witness: the input-focus query of a server that answers no query
\* failed and focused_client returned 0
C19_Witness ==
    /\ ret.op = "focused_client"
    /\ server.focus = ReplyErr
    /\ server.pointer = ReplyErr
    /\ ret.out = Ret(0)
    /\ phase = "Ready"

-----------------------------------------------------------------------------
(* Claims about the bootstrap *)

\* C20: new() returns a driver only if every bootstrap step succeeded: the
\* connection, the root window, the interning of every atom, the creation
\* of the check window, the resolution of the extension's event base and
\* the output-change subscription; otherwise the process aborts.
C20_ReadyOnlyIfEveryStepSucceeded ==
    ret.op = "new" =>
        IF /\ server.boot.connect
           /\ server.boot.has_root
           /\ server.boot.intern
           /\ server.boot.create_window
           /\ server.boot.ext.tag = "Some"
           /\ server.boot.select_input
           THEN phase = "Ready" /\ CheckWindow \in server.windows
           ELSE phase = "Aborted" /\ ret.out.tag = "Panic"

-----------------------------------------------------------------------------
(* Claims about the failures of current_outputs *)

\* C21: current_outputs treats its two round-trips differently: a failed
\* screen-resources query aborts the process with a panic instead of
\* returning an empty list, whereas a failed info query for one CRTC leaves
\* that CRTC out of the result and the remaining CRTCs are still returned.
C21_OutputsFailureModes ==
    ret.op = "current_outputs" =>
        IF server.resources.tag = "Err"
           THEN ret.out.tag = "Panic" /\ phase = "Aborted"
           ELSE /\ ret.out.tag = "Value"
                /\ phase = "Ready"
                /\ [i \in DOMAIN ret.out.val |-> ret.out.val[i].true_region]
                      = WideRegions(server.resources.val)

\* C21 witness: the info query of the first CRTC failed, that of the second
\* succeeded, and the result is the one Screen of the second, numbered 0
C21_Witness ==
    /\ ret.op = "current_outputs"
    /\ server.resources = Ok(<<ReplyErr, Ok(Region(1920, 0, 1920, 1080))>>)
    /\ Len(ret.out.val) = 1
    /\ ret.out.val[1].index = 0
    /\ ret.out.val[1].true_region =
          [x |-> 1920, y |-> 0, w |-> 1920, h |-> 1080]
    /\ phase = "Ready"

====
